---- MODULE Spec2Model ----
(***************************************************************************)
(* Model of ContextualException (src/ContextualException/                  *)
(* ContextualException.hpp): an exception value that carries a base frame, *)
(* a trail of child frames inherited from the exceptions it supersedes,    *)
(* and a cached one-line rendering of the base frame.                      *)
(*                                                                         *)
(* A std::string is a sequence of one-character strings, so that the       *)
(* renderings are computed character by character as the stream inserters  *)
(* of the source produce them.  An optional exception (a pointer that is   *)
(* nullptr or points at an exception) is a sequence of length 0 or 1.      *)
(***************************************************************************)
EXTENDS Integers, Sequences, FiniteSets, TLC

\* ------------------------------------------------------------------ bounds
\* No operation is taken that would leave more child frames than this.
MaxChildren == 3
\* No frame is constructed once this many frames have been constructed.
MaxClock == 3

\* The calling code keeps two storage slots that may each hold an exception.
Slots == {1, 2}

\* ------------------------------------------------------------- std::string
Digits == <<"0", "1", "2", "3", "4", "5", "6", "7", "8", "9">>

RECURSIVE NatToStr(_)
NatToStr(n) ==
    IF n < 10 THEN <<Digits[n + 1]>>
    ELSE NatToStr(n \div 10) \o <<Digits[(n % 10) + 1]>>

\* operator<<(std::ostream&, int): decimal, with a leading '-' when negative.
IntToStr(n) == IF n < 0 THEN <<"-">> \o NatToStr(0 - n) ELSE NatToStr(n)

\* ------------------------------------------------------------------- Frame
\* Frame(): code(0), line(0), depth(0), empty strings.  The field born is a
\* history field: the value of the construction clock when the frame was
\* built.  No operation of the source reads it.
FrameDefault(now) ==
    [message |-> <<>>, code |-> 0, file |-> <<>>, line |-> 0,
     function |-> <<>>, depth |-> 0, born |-> now]

\* Frame(message, code, file, line, function): depth(0).
Frame(message, code, file, line, function, now) ==
    [message |-> message, code |-> code, file |-> file, line |-> line,
     function |-> function, depth |-> 0, born |-> now]

\* ----------------------------------------------------- ContextualException
\* The members of an exception before the body of a constructor runs.
Members(now) ==
    [base_frame |-> FrameDefault(now), child_frames |-> <<>>,
     error_message |-> <<>>]

Null == <<>>
Some(e) == <<e>>

\* A std::exception argument: a ContextualException, or any other
\* exception, of which only what() is used.
Contextual(e) == [contextual |-> TRUE, value |-> e, what |-> e.error_message]
Other(d) == [contextual |-> FALSE, value |-> Members(0), what |-> d]

\* GetFrameMessage with the test "0 < frame.code" in place of "0 != frame.code".
GetFrameMessagePositiveCode(frame) ==
    LET s1 == frame.file \o <<":">> \o IntToStr(frame.line) \o <<" ", "|", " ">>
                \o frame.function \o <<"(", ")", " ", "|", " ">>
        s2 == IF 0 < frame.code
              THEN s1 \o <<"[", "c", "o", "d", "e", "=">> \o IntToStr(frame.code) \o <<"]", " ">>
              ELSE s1
    IN  s2 \o frame.message

GetFrameMessage(frame) ==
    LET s1 == frame.file \o <<":">> \o IntToStr(frame.line) \o <<" ", "|", " ">>
                \o frame.function \o <<"(", ")", " ", "|", " ">>
        s2 == IF 0 # frame.code
              THEN s1 \o <<"[", "c", "o", "d", "e", "=">> \o IntToStr(frame.code) \o <<"]", " ">>
              ELSE s1
    IN  s2 \o frame.message

SetBaseFrame(self, message, code, file, line, function, now) ==
    [self EXCEPT !.base_frame = Frame(message, code, file, line, function, now)]

AssignErrorMessage(self) ==
    [self EXCEPT !.error_message = GetFrameMessage(self.base_frame)]

\* NormalizeChildDepth with its loop left out.
NormalizeChildDepthNoLoop(self) == self

NormalizeChildDepth(self) ==
    [self EXCEPT !.child_frames =
        [ii \in 1..Len(self.child_frames) |->
            [self.child_frames[ii] EXCEPT !.depth = (ii - 1) + 1]]]

\* AppendFramesFrom inserting at child_frames_.begin(): the frames of the
\* origin come before the child frames already there.
AppendFramesFromAtBegin(self, exception) ==
    LET origin_exception == exception.value
    IN  [self EXCEPT !.child_frames =
            (<<origin_exception.base_frame>> \o origin_exception.child_frames)
                \o self.child_frames]

\* AppendFramesFrom with its two statements in the other order: the child
\* frames of the origin, then its base frame.
AppendFramesFromBaseLast(self, exception) ==
    LET origin_exception == exception.value
    IN  [self EXCEPT !.child_frames =
            Append(self.child_frames \o origin_exception.child_frames,
                   origin_exception.base_frame)]

\* emplace_back(origin->base_frame_), then insert(end(), origin's children).
AppendFramesFrom(self, exception) ==
    LET origin_exception == exception.value
        pushed == Append(self.child_frames, origin_exception.base_frame)
    IN  [self EXCEPT !.child_frames = pushed \o origin_exception.child_frames]

\* WrapOtherException without the test for an empty message.
WrapOtherExceptionAlwaysComma(self, exception) ==
    [self EXCEPT !.base_frame.message =
        (self.base_frame.message \o <<",", " ">>) \o exception.what]

WrapOtherException(self, exception) ==
    IF self.base_frame.message = <<>>
    THEN [self EXCEPT !.base_frame.message = exception.what]
    ELSE [self EXCEPT !.base_frame.message =
              (self.base_frame.message \o <<",", " ">>) \o exception.what]

IsContextualException(exception) == exception.contextual

\* WrapException adding what() to the base message for every exception, not
\* only in the else branch.
WrapExceptionAlwaysText(self, exception) ==
    NormalizeChildDepth(
        IF IsContextualException(exception)
        THEN WrapOtherException(AppendFramesFrom(self, exception), exception)
        ELSE WrapOtherException(self, exception))

WrapException(self, exception) ==
    NormalizeChildDepth(
        IF IsContextualException(exception)
        THEN AppendFramesFrom(self, exception)
        ELSE WrapOtherException(self, exception))

\* AppendException computing the cached message again after the append.
AppendExceptionReassigning(self, exception) ==
    AssignErrorMessage(NormalizeChildDepth(AppendFramesFrom(self, exception)))

AppendException(self, exception) ==
    NormalizeChildDepth(AppendFramesFrom(self, exception))

\* The loop index ii of the source runs over 0..size-1.
RECURSIVE DetailedFrom(_, _, _)
DetailedFrom(self, stream, ii) ==
    IF ii < Len(self.child_frames)
    THEN DetailedFrom(self,
             (stream \o <<"\n", " ", " ", " ", " ">>) \o GetFrameMessage(self.child_frames[ii + 1]),
             ii + 1)
    ELSE stream

DetailedErrorMessage(self) == DetailedFrom(self, self.error_message, 0)

what(self) == self.error_message
Message(self) == self.base_frame.message
Code(self) == self.base_frame.code
File(self) == self.base_frame.file
Line(self) == self.base_frame.line
Function(self) == self.base_frame.function

\* ContextualException()
ContextualExceptionDefault(now) == Members(now)

\* ContextualException(message, file, line, function)
ContextualExceptionMsg(message, file, line, function, now) ==
    LET default_code == 0
    IN  AssignErrorMessage(
            SetBaseFrame(Members(now), message, default_code, file, line,
                         function, now))

\* ContextualException(message, code, file, line, function)
ContextualExceptionCode(message, code, file, line, function, now) ==
    AssignErrorMessage(
        SetBaseFrame(Members(now), message, code, file, line, function, now))

\* ContextualException(message, exception, file, line, function)
ContextualExceptionWrapMsg(message, exception, file, line, function, now) ==
    LET default_code == 0
    IN  AssignErrorMessage(
            WrapException(
                SetBaseFrame(Members(now), message, default_code, file, line,
                             function, now),
                exception))

\* ContextualException(message, code, exception, file, line, function)
ContextualExceptionWrapCode(message, code, exception, file, line, function, now) ==
    AssignErrorMessage(
        WrapException(
            SetBaseFrame(Members(now), message, code, file, line, function, now),
            exception))

\* ------------------------------------- contextual_exception::anonymous
MakeMsg(file, line, function, message, now) ==
    ContextualExceptionMsg(message, file, line, function, now)

MakeCode(file, line, function, message, code, now) ==
    ContextualExceptionCode(message, code, file, line, function, now)

WrapMsg(file, line, function, message, exception, now) ==
    ContextualExceptionWrapMsg(message, exception, file, line, function, now)

WrapCode(file, line, function, message, code, exception, now) ==
    ContextualExceptionWrapCode(message, code, exception, file, line, function, now)

\* SafeChain (without a code) without the test for nullptr: the new
\* exception is returned whether or not there was one to chain.
SafeChainMsgUnguarded(file, line, function, message, source_exception_or_null, now) ==
    LET assigned == ContextualExceptionMsg(message, file, line, function, now)
    IN  IF source_exception_or_null = Null
        THEN Some(assigned)
        ELSE Some(AppendException(assigned, Contextual(source_exception_or_null[1])))

\* SafeChain (with a code) without the AppendException call.
SafeChainCodeNoAppend(file, line, function, message, code, source_exception_or_null, now) ==
    IF source_exception_or_null = Null
    THEN Null
    ELSE Some(ContextualExceptionCode(message, code, file, line, function, now))

\* The class declares a destructor, so it has no move operations and
\* std::move(*source) copies; the pointee is then assigned the new exception
\* and the copy is appended to it.  The result is the returned pointer with
\* its pointee: Null for nullptr.
SafeChainMsg(file, line, function, message, source_exception_or_null, now) ==
    IF source_exception_or_null = Null
    THEN Null
    ELSE LET lower_exception == source_exception_or_null[1]
             assigned == ContextualExceptionMsg(message, file, line, function, now)
         IN  Some(AppendException(assigned, Contextual(lower_exception)))

SafeChainCode(file, line, function, message, code, source_exception_or_null, now) ==
    IF source_exception_or_null = Null
    THEN Null
    ELSE LET lower_exception == source_exception_or_null[1]
             assigned == ContextualExceptionCode(message, code, file, line, function, now)
         IN  Some(AppendException(assigned, Contextual(lower_exception)))

\* ------------------------------------------------------------ calling code
\* The arguments of the calls the model makes: message, optional code and
\* the call site (__FILENAME__, __LINE__, __FUNCTION__).
Calls ==
    { [message |-> <<"d", "i", "s", "k", " ", "f", "u", "l", "l">>, hasCode |-> TRUE, code |-> 28,
       file |-> <<"i", "o", ".", "c", "c">>, line |-> 42, function |-> <<"F", "l", "u", "s", "h">>],
      [message |-> <<"f", "l", "u", "s", "h", " ", "f", "a", "i", "l", "e", "d">>, hasCode |-> FALSE, code |-> 0,
       file |-> <<"d", "b", ".", "c", "c">>, line |-> 10, function |-> <<"O", "p", "e", "n">>],
      [message |-> <<>>, hasCode |-> TRUE, code |-> 0,
       file |-> <<"m", "a", "i", "n", ".", "c", "c">>, line |-> 5, function |-> <<"M", "a", "i", "n">>],
      [message |-> <<"a", "\n", "b">>, hasCode |-> TRUE, code |-> -7,
       file |-> <<"x", ".", "c", "c">>, line |-> 100, function |-> <<"f">>] }

\* what() of the exceptions of other kinds that the model wraps.
Descriptions == { <<"d", "i", "s", "k", " ", "e", "r", "r">>, <<>> }

NoCall ==
    [message |-> <<>>, hasCode |-> FALSE, code |-> 0, file |-> <<>>,
     line |-> 0, function |-> <<>>]

CallMake(c, now) ==
    IF c.hasCode
    THEN MakeCode(c.file, c.line, c.function, c.message, c.code, now)
    ELSE MakeMsg(c.file, c.line, c.function, c.message, now)

CallWrap(c, exception, now) ==
    IF c.hasCode
    THEN WrapCode(c.file, c.line, c.function, c.message, c.code, exception, now)
    ELSE WrapMsg(c.file, c.line, c.function, c.message, exception, now)

CallSafeChain(c, source_exception_or_null, now) ==
    IF c.hasCode
    THEN SafeChainCode(c.file, c.line, c.function, c.message, c.code,
                       source_exception_or_null, now)
    ELSE SafeChainMsg(c.file, c.line, c.function, c.message,
                      source_exception_or_null, now)

VARIABLES
    slot,      \* slot[i]: the optional exception held by storage slot i
    clock,     \* number of frames constructed so far
    hist,      \* hist[i]: how the exception of slot i came about (history)
    last       \* the last operation: its name, operands and returned pointer

vars == <<slot, clock, hist, last>>

\* chains: the SafeChain calls on the exception since Make built it, when
\* nothing else was done to it, else -1.  appends: the AppendException calls
\* on it since it was built without child frames, when nothing else was done
\* to it, else -1.  plain: it was built by Make, Wrap and SafeChain calls
\* alone, and so was every exception it absorbed.
NoHist == [chains |-> -1, appends |-> -1, plain |-> FALSE]
Filled(n, a, p) == [chains |-> n, appends |-> a, plain |-> p]

Did(op, i, j, c, d, r) ==
    [op |-> op, dst |-> i, src |-> j, call |-> c, what |-> d, returned |-> r]

Init ==
    /\ slot = [i \in Slots |-> Null]
    /\ clock = 0
    /\ hist = [i \in Slots |-> NoHist]
    /\ last = Did("none", 0, 0, NoCall, <<>>, FALSE)

\* slot i = CONTEXTUAL_EXCEPTION(message[, code])
DoMake(i, c) ==
    /\ slot[i] = Null
    /\ clock < MaxClock
    /\ slot' = [slot EXCEPT ![i] = Some(CallMake(c, clock + 1))]
    /\ clock' = clock + 1
    /\ hist' = [hist EXCEPT ![i] = Filled(0, 0, TRUE)]
    /\ last' = Did("Make", i, 0, c, <<>>, FALSE)

\* slot i = ContextualException()
DoDefault(i) ==
    /\ slot[i] = Null
    /\ clock < MaxClock
    /\ slot' = [slot EXCEPT ![i] = Some(ContextualExceptionDefault(clock + 1))]
    /\ clock' = clock + 1
    /\ hist' = [hist EXCEPT ![i] = Filled(-1, 0, FALSE)]
    /\ last' = Did("Default", i, 0, NoCall, <<>>, FALSE)

\* slot i = WRAP_CONTEXTUAL_EXCEPTION(message[, code], *slot j); i is an
\* empty slot or j itself.
DoWrapSame(i, c, j) ==
    /\ slot[j] # Null
    /\ i = j \/ slot[i] = Null
    /\ clock < MaxClock
    /\ Len(slot[j][1].child_frames) + 1 <= MaxChildren
    /\ slot' = [slot EXCEPT ![i] =
                   Some(CallWrap(c, Contextual(slot[j][1]), clock + 1))]
    /\ clock' = clock + 1
    /\ hist' = [hist EXCEPT ![i] = Filled(-1, -1, hist[j].plain)]
    /\ last' = Did("WrapSame", i, j, c, <<>>, FALSE)

\* slot i = WRAP_CONTEXTUAL_EXCEPTION(message[, code], e) for an exception e
\* of another kind with e.what() = d.
DoWrapOther(i, c, d) ==
    /\ slot[i] = Null
    /\ clock < MaxClock
    /\ slot' = [slot EXCEPT ![i] = Some(CallWrap(c, Other(d), clock + 1))]
    /\ clock' = clock + 1
    /\ hist' = [hist EXCEPT ![i] = Filled(-1, 0, TRUE)]
    /\ last' = Did("WrapOther", i, 0, c, d, FALSE)

\* slot i .AppendException(*slot j) for two distinct exceptions.  The spec
\* gives every exception one owner and has an append consume the other
\* exception, so an exception is never appended to itself; in the source that
\* call would pass vector::insert a range of the vector it inserts into.
DoAppend(i, j) ==
    /\ i # j
    /\ slot[i] # Null
    /\ slot[j] # Null
    /\ Len(slot[i][1].child_frames) + 1 + Len(slot[j][1].child_frames)
           <= MaxChildren
    /\ slot' = [slot EXCEPT ![i] =
                   Some(AppendException(slot[i][1], Contextual(slot[j][1])))]
    /\ hist' = [hist EXCEPT ![i] =
                  Filled(-1, IF @.appends >= 0 THEN @.appends + 1 ELSE -1, FALSE)]
    /\ last' = Did("Append", i, j, NoCall, <<>>, FALSE)
    /\ UNCHANGED clock

\* SAFE_CHAIN_CONTEXTUAL_EXCEPTION_TO(message[, code], pointer to slot i):
\* the pointer is nullptr when the slot is empty.
DoSafeChain(i, c) ==
    /\ slot[i] # Null => /\ clock < MaxClock
                         /\ Len(slot[i][1].child_frames) + 1 <= MaxChildren
    /\ LET result == CallSafeChain(c, slot[i], clock + 1)
       IN  /\ slot' = [slot EXCEPT ![i] = result]
           /\ last' = Did("SafeChain", i, 0, c, <<>>, result # Null)
    /\ clock' = IF slot[i] = Null THEN clock ELSE clock + 1
    /\ hist' = IF slot[i] = Null THEN hist
               ELSE [hist EXCEPT ![i] =
                         Filled(IF @.chains >= 0 THEN @.chains + 1 ELSE -1, -1,
                                @.plain)]

Next ==
    \/ \E i \in Slots, c \in Calls : DoMake(i, c)
    \/ \E i \in Slots : DoDefault(i)
    \/ \E i \in Slots, c \in Calls, j \in Slots : DoWrapSame(i, c, j)
    \/ \E i \in Slots, c \in Calls, d \in Descriptions : DoWrapOther(i, c, d)
    \/ \E i \in Slots, j \in Slots : DoAppend(i, j)
    \/ \E i \in Slots, c \in Calls : DoSafeChain(i, c)

Spec == Init /\ [][Next]_vars

\* --------------------------------------------------------------- properties
Held(i) == slot[i] # Null
Frames(e) == <<e.base_frame>> \o e.child_frames

\* A frame, and a sequence of frames, up to the depth field.
Undepth(f) == [f EXCEPT !.depth = 0]
UndepthAll(fs) == [k \in 1..Len(fs) |-> Undepth(fs[k])]

IsPrefix(p, s) == Len(p) <= Len(s) /\ SubSeq(s, 1, Len(p)) = p
IsSuffix(p, s) == Len(p) <= Len(s) /\ SubSeq(s, Len(s) - Len(p) + 1, Len(s)) = p

\* The lines of a text: the pieces between its line breaks.
BreaksOf(s) == {b \in 1..Len(s) : s[b] = "\n"}
LinesOf(s) ==
    LET breaks == BreaksOf(s)
        \* the position of the n-th line break; 0 and Len(s) + 1 bracket them
        at(n) == IF n = 0 THEN 0
                 ELSE IF n > Cardinality(breaks) THEN Len(s) + 1
                 ELSE CHOOSE b \in breaks :
                          Cardinality({a \in breaks : a < b}) = n - 1
    IN  [n \in 1..(Cardinality(breaks) + 1) |->
            SubSeq(s, at(n - 1) + 1, at(n) - 1)]

HasNewline(s) == BreaksOf(s) # {}

Indent == <<" ", " ", " ", " ">>

\* What the claims say the lines of the detailed message are: the summary of
\* the first frame, then the indented summaries of the others.
SummaryLines(fs) ==
    [k \in 1..Len(fs) |->
        IF k = 1 THEN GetFrameMessage(fs[k]) ELSE Indent \o GetFrameMessage(fs[k])]

\* The frame a call builds, up to its birth.
CallFrame(c, now) ==
    Frame(c.message, IF c.hasCode THEN c.code ELSE 0, c.file, c.line,
          c.function, now)

\* The lines ls[k], ls[k + 1], ... with a line break between neighbours.
RECURSIVE JoinFrom(_, _)
JoinFrom(ls, k) ==
    IF k > Len(ls) THEN <<>>
    ELSE IF k = Len(ls) THEN ls[k]
    ELSE (ls[k] \o <<"\n">>) \o JoinFrom(ls, k + 1)
JoinLines(ls) == JoinFrom(ls, 1)

DepthsOf(e) == [k \in 1..Len(e.child_frames) |-> e.child_frames[k].depth]
BornOf(e) == [k \in 1..Len(Frames(e)) |-> Frames(e)[k].born]
Decreasing(ns) == \A k \in 1..(Len(ns) - 1) : ns[k] > ns[k + 1]

\* C1: in every exception a slot holds, whatever calls produced it, the base
\* frame has depth 0 and the child frame at 0-based index i has depth i + 1
\* (the k-th child frame, counted from 1, has depth k).
DepthsNumbered ==
    \A i \in Slots :
        Held(i) =>
            /\ slot[i][1].base_frame.depth = 0
            /\ \A k \in 1..Len(slot[i][1].child_frames) :
                   slot[i][1].child_frames[k].depth = k

\* An exception that already had child frames, with their depths, has just
\* been appended to another one, which now has several child frames.
DepthsNumberedWitness ==
    /\ last.op = "Append"
    /\ Len(slot[last.src][1].child_frames) >= 1
    /\ Len(slot[last.dst][1].child_frames) >= 3

\* C2: AppendException(self, other) keeps the child frames of self as a
\* prefix and appends to them exactly other's base frame followed by other's
\* child frames in their order (1 + |other.child_frames| frames, equal up to
\* the depth field): nothing is reordered, removed or deduplicated.  Two
\* calls on an exception without child frames therefore leave
\* [B.base] ++ B.children ++ [C.base] ++ C.children.
AppendKeepsOrder ==
    [][last'.op = "Append" =>
         LET before == slot[last'.dst][1].child_frames
             after  == slot'[last'.dst][1].child_frames
             other  == slot[last'.src][1]
         IN  /\ Len(after) = Len(before) + 1 + Len(other.child_frames)
             /\ SubSeq(after, 1, Len(before)) = before
             /\ UndepthAll(after) =
                    (UndepthAll(before) \o <<Undepth(other.base_frame)>>)
                        \o UndepthAll(other.child_frames)]_vars

\* The second of two AppendException calls on an exception that was built
\* without child frames has just returned.
AppendKeepsOrderWitness ==
    /\ last.op = "Append"
    /\ hist[last.dst].appends = 2
    /\ Len(slot[last.dst][1].child_frames) >= 2

\* C3: SafeChain, with or without a code, on an empty slot (a null pointer)
\* changes no slot, constructs no frame and returns the null pointer.
SafeChainOfNullIsNoOp ==
    [][(last'.op = "SafeChain" /\ slot[last'.dst] = Null) =>
         /\ slot' = slot
         /\ clock' = clock
         /\ last'.returned = FALSE]_vars

\* SafeChain has just been called on a slot that was and is empty.
SafeChainOfNullWitness ==
    /\ last.op = "SafeChain"
    /\ last.returned = FALSE
    /\ slot[last.dst] = Null

\* C4: SafeChain on a slot holding E_old leaves the slot holding E_new whose
\* base frame is the frame of the call's (message, code, location) and whose
\* child frames are [E_old.base_frame] ++ E_old.child_frames with the depths
\* renumbered; it returns the pointer to that slot, and after n successive
\* calls on a slot that Make had filled the slot holds exactly n child frames.
SafeChainKeepsTrail ==
    [][(last'.op = "SafeChain" /\ slot[last'.dst] # Null) =>
         LET i == last'.dst
             E_old == slot[i][1]
         IN  /\ last'.returned
             /\ slot'[i] # Null
             /\ \A j \in Slots \ {i} : slot'[j] = slot[j]
             /\ slot'[i][1].base_frame = CallFrame(last'.call, clock')
             /\ UndepthAll(slot'[i][1].child_frames) =
                    <<Undepth(E_old.base_frame)>> \o UndepthAll(E_old.child_frames)
             /\ DepthsOf(slot'[i][1]) =
                    [k \in 1..(Len(E_old.child_frames) + 1) |-> k]
             /\ hist'[i].chains >= 0 =>
                    Len(slot'[i][1].child_frames) = hist'[i].chains]_vars

\* The second of two successive SafeChain calls on a slot that Make filled
\* has just returned.
SafeChainKeepsTrailWitness ==
    /\ last.op = "SafeChain"
    /\ last.returned
    /\ hist[last.dst].chains = 2
    /\ Len(slot[last.dst][1].child_frames) = 2

\* C5 as stated: wrapping an exception F of the same kind that has k child
\* frames gives a detailed message of exactly 1 + 1 + k lines: the summary of
\* the new base frame, whose message is the call's message, then the
\* (indented) summaries of F's base frame and of F's child frames in order.
WrapSameLineCount ==
    [][last'.op = "WrapSame" =>
         \A R \in {slot'[last'.dst][1]}, F \in {slot[last'.src][1]} :
             \A lines \in {LinesOf(DetailedErrorMessage(R))} :
                 /\ R.base_frame.message = last'.call.message
                 /\ Len(lines) = 1 + 1 + Len(F.child_frames)
                 /\ lines = SummaryLines(<<R.base_frame>> \o Frames(F))]_vars

\* C5 as amended: the detailed message is the summary of the new base frame,
\* whose message is the call's message, followed by the indented summaries of
\* F's base frame and of F's k child frames in order, each after one line
\* break; these are exactly 1 + 1 + k lines when no message, file or function
\* of those frames contains a line break.
WrapSameRendering ==
    [][last'.op = "WrapSame" =>
         \A R \in {slot'[last'.dst][1]}, F \in {slot[last'.src][1]} :
             \A text \in {DetailedErrorMessage(R)},
                sums \in {SummaryLines(<<R.base_frame>> \o Frames(F))} :
                 /\ R.base_frame = CallFrame(last'.call, clock')
                 /\ Len(R.child_frames) = 1 + Len(F.child_frames)
                 /\ text = JoinLines(sums)
                 /\ (\A n \in 1..Len(sums) : ~HasNewline(sums[n])) =>
                        /\ Len(LinesOf(text)) = 1 + 1 + Len(F.child_frames)
                        /\ LinesOf(text) = sums]_vars

\* An exception F with child frames, still held by its slot, has just been
\* wrapped into another slot, and the detailed message of the result has no
\* line break inside a summary.
WrapSameRenderingWitness ==
    /\ last.op = "WrapSame"
    /\ last.dst # last.src
    /\ Len(slot[last.src][1].child_frames) >= 1
    /\ Len(LinesOf(DetailedErrorMessage(slot[last.dst][1])))
           = 1 + 1 + Len(slot[last.src][1].child_frames)

\* C6: wrapping an exception of another kind whose what() is d with message
\* m gives an exception without child frames whose base message is
\* m + ", " + d when m is not empty and d when m is empty; "flush failed"
\* and "disk err" give "flush failed, disk err".
WrapOtherFlattens ==
    [][last'.op = "WrapOther" =>
         LET R == slot'[last'.dst][1]
             m == last'.call.message
             d == last'.what
         IN  /\ R.child_frames = <<>>
             /\ m # <<>> => Message(R) = (m \o <<",", " ">>) \o d
             /\ m = <<>> => Message(R) = d
             /\ (m = <<"f", "l", "u", "s", "h", " ", "f", "a", "i", "l", "e", "d">> /\ d = <<"d", "i", "s", "k", " ", "e", "r", "r">>) =>
                    Message(R) = <<"f", "l", "u", "s", "h", " ", "f", "a", "i", "l", "e", "d", ",", " ", "d", "i", "s", "k", " ", "e", "r", "r">>]_vars

\* "flush failed" has just been wrapped around the other-kind "disk err".
WrapOtherFlattensWitness ==
    /\ last.op = "WrapOther"
    /\ last.call.message = <<"f", "l", "u", "s", "h", " ", "f", "a", "i", "l", "e", "d">>
    /\ last.what = <<"d", "i", "s", "k", " ", "e", "r", "r">>
    /\ Message(slot[last.dst][1]) = <<"f", "l", "u", "s", "h", " ", "f", "a", "i", "l", "e", "d", ",", " ", "d", "i", "s", "k", " ", "e", "r", "r">>

\* C7 as stated: in every exception produced by Make, Wrap, AppendException
\* and SafeChain calls the frames that the detailed message lists (the base
\* frame, then the child frames in order) run from the frame constructed most
\* recently to the one constructed first.
NewestFirst ==
    \A i \in Slots : Held(i) => Decreasing(BornOf(slot[i][1]))

\* C7 as amended: in every exception produced by Make, Wrap and SafeChain
\* calls alone (AppendException being called only by SafeChain), the detailed
\* message is the summaries of the base frame and then of the child frames in
\* order, and these frames run from the one constructed most recently to the
\* one constructed first.
NewestFirstWithoutAppend ==
    \A i \in Slots :
        (Held(i) /\ hist[i].plain) =>
            /\ Decreasing(BornOf(slot[i][1]))
            /\ DetailedErrorMessage(slot[i][1]) =
                   JoinLines(SummaryLines(Frames(slot[i][1])))

\* A slot holds an exception with two child frames that was produced without
\* a direct AppendException call.
NewestFirstWitness ==
    \E i \in Slots :
        /\ Held(i)
        /\ hist[i].plain
        /\ Len(slot[i][1].child_frames) >= 2

\* The location prefix and the code segment of a summary.
LocationPrefix(f) ==
    (((f.file \o <<":">>) \o IntToStr(f.line)) \o <<" ", "|", " ">>) \o (f.function \o <<"(", ")", " ", "|", " ">>)
CodeSegment(f) == (<<"[", "c", "o", "d", "e", "=">> \o IntToStr(f.code)) \o <<"]", " ">>

\* C8: the summary of a frame is "<file>:<line> | <function>() | ", then
\* "[code=<code>] " if and only if the code is not 0, then the message; a
\* frame built with code 0 renders as one built without a code, and an empty
\* message still yields the prefix and the optional code segment.  The frame
\* ("disk full", 28, "io.cc", 42, "Flush") renders as
\* "io.cc:42 | Flush() | [code=28] disk full".
SummaryFormat ==
    /\ \A i \in Slots :
           Held(i) =>
               \A n \in 1..Len(Frames(slot[i][1])) :
                   LET f == Frames(slot[i][1])[n]
                       r == GetFrameMessage(f)
                   IN  /\ IsPrefix(LocationPrefix(f), r)
                       /\ IsSuffix(f.message, r)
                       /\ f.code # 0 =>
                              r = (LocationPrefix(f) \o CodeSegment(f)) \o f.message
                       /\ f.code = 0 => r = LocationPrefix(f) \o f.message
                       /\ (/\ f.message = <<"d", "i", "s", "k", " ", "f", "u", "l", "l">>
                           /\ f.code = 28
                           /\ f.file = <<"i", "o", ".", "c", "c">>
                           /\ f.line = 42
                           /\ f.function = <<"F", "l", "u", "s", "h">>) =>
                              r = <<"i", "o", ".", "c", "c", ":", "4", "2", " ", "|", " ", "F", "l", "u", "s", "h", "(", ")", " ", "|", " ", "[", "c", "o", "d", "e", "=", "2", "8", "]", " ", "d", "i", "s", "k", " ", "f", "u", "l", "l">>
                       /\ (f.message = <<"a", "\n", "b">> /\ f.code = -7) =>
                              r = <<"x", ".", "c", "c", ":", "1", "0", "0", " ", "|", " ", "f", "(", ")", " ", "|", " ", "[", "c", "o", "d", "e", "=", "-", "7", "]", " ", "a", "\n", "b">>
                       /\ (f.message = <<>> /\ f.file = <<"m", "a", "i", "n", ".", "c", "c">>) =>
                              r = <<"m", "a", "i", "n", ".", "c", "c", ":", "5", " ", "|", " ", "M", "a", "i", "n", "(", ")", " ", "|", " ">>
    /\ \A c \in Calls :
           what(MakeCode(c.file, c.line, c.function, c.message, 0, 1))
               = what(MakeMsg(c.file, c.line, c.function, c.message, 1))

\* Slots hold the frame of the concrete case and a frame with an empty
\* message and code 0.
SummaryFormatWitness ==
    \E i \in Slots, j \in Slots :
        /\ Held(i)
        /\ Held(j)
        /\ what(slot[i][1]) = <<"i", "o", ".", "c", "c", ":", "4", "2", " ", "|", " ", "F", "l", "u", "s", "h", "(", ")", " ", "|", " ", "[", "c", "o", "d", "e", "=", "2", "8", "]", " ", "d", "i", "s", "k", " ", "f", "u", "l", "l">>
        /\ slot[j][1].base_frame.code = 0
        /\ slot[j][1].base_frame.message = <<>>
        /\ slot[j][1].base_frame.file = <<"m", "a", "i", "n", ".", "c", "c">>

\* C9: AppendException(self, other) on two distinct exceptions changes
\* nothing but the child frames of self: other (base frame, child frames with
\* their depths, cached rendering) is as before, and so are the base frame of
\* self, its accessors and its cached rendering.
AppendChangesChildrenOnly ==
    [][last'.op = "Append" =>
         LET i == last'.dst
             self == slot[i][1]
             after == slot'[i][1]
         IN  /\ \A j \in Slots \ {i} : slot'[j] = slot[j]
             /\ after.base_frame = self.base_frame
             /\ what(after) = what(self)
             /\ Message(after) = Message(self)
             /\ Code(after) = Code(self)
             /\ File(after) = File(self)
             /\ Line(after) = Line(self)
             /\ Function(after) = Function(self)]_vars

\* An exception with child frames has just been appended to another one.
AppendChangesChildrenOnlyWitness ==
    /\ last.op = "Append"
    /\ Len(slot[last.src][1].child_frames) >= 1
    /\ slot[last.dst][1].child_frames # <<>>
    /\ hist[last.dst].appends = 1

\* C10: in every exception a slot holds, built by any constructor and then
\* by any AppendException and SafeChain calls, the cached rendering that
\* what() returns, and with which the detailed message begins, is the summary
\* of the base frame.
CachedIsSummaryOfBase ==
    \A i \in Slots :
        Held(i) =>
            /\ what(slot[i][1]) = GetFrameMessage(slot[i][1].base_frame)
            /\ IsPrefix(GetFrameMessage(slot[i][1].base_frame),
                        DetailedErrorMessage(slot[i][1]))

====
